---- MODULE Spec2Model ----
(***************************************************************************)
(* Conversation-history handling of content/05_openai_chatbot_lab.ipynb:   *)
(* chat_with_memory, stream_chat_with_memory, the reset cell,              *)
(* trim_conversation and summarize_conversation.                           *)
(*                                                                         *)
(* A text is a sequence of tokens, so that string concatenation (+, +=,    *)
(* f-strings) is sequence concatenation and can be got wrong.  The remote  *)
(* completion service is the environment: it answers a call with a text,   *)
(* a stream of chunks, or an exception.                                    *)
(***************************************************************************)
EXTENDS Integers, Sequences, FiniteSets, TLC

\* ---------------------------------------------------------------- bounds
\* Most messages the two global histories hold together when a turn starts.
MaxHistory == 7
\* Most chunks one streamed completion delivers.
MaxChunks == 2
\* Longest list the caller of trim_conversation / summarize_conversation holds.
MaxLen == 5
\* Largest max_messages handed to trim_conversation.
MaxK == 2

\* ----------------------------------------------------------------- texts
SystemPrompt == <<"You are a helpful assistant.">>
SummarizeInstruction == <<"Summarize this conversation concisely.">>
SummaryPrefix == <<"Previous conversation summary: ">>

UserTexts == {<<"Hi">>, <<"more">>}
Responses == {<<"Hello!">>, <<"ok">>}
Fragments == {<<>>, <<"a">>, <<"b">>}
Summaries == {<<"s1">>, <<"s2">>}
Usages ==
    {[prompt_tokens |-> 5, completion_tokens |-> 3, total_tokens |-> 8],
     [prompt_tokens |-> 7, completion_tokens |-> 2, total_tokens |-> 9]}
Errors == {"RateLimitError", "APIConnectionError"}

\* A chunk of a streamed completion: delta.content is a text, or None for a
\* chunk that carries no text (role header, finish chunk).
Delta(content) == [is_none |-> FALSE, content |-> content]
NoneDelta == [is_none |-> TRUE, content |-> <<>>]
Deltas == {Delta(f) : f \in Fragments} \cup {NoneDelta}

Message(role, content) == [role |-> role, content |-> content]
SystemMessage == Message("system", SystemPrompt)

NoRequest == [model |-> "none", messages |-> <<>>, stream |-> FALSE]
NoOutcome == [kind |-> "none"]

VARIABLES
    conversation_memory,     \* global list of chat_with_memory
    streaming_conversation,  \* global list of stream_chat_with_memory
    messages,                \* the list a caller trims or summarizes
    pc,                      \* where the running function is
    user_message,            \* argument of the running turn
    request,                 \* arguments of the last completions.create call
    service,                 \* what the service answered to that call
    chunks,                  \* the chunks iterated so far
    assistant_response,      \* local accumulator of stream_chat_with_memory
    result,                  \* what the last function call gave its caller
    last_call                \* the caller's last statement on messages

vars == <<conversation_memory, streaming_conversation, messages, pc,
          user_message, request, service, chunks, assistant_response,
          result, last_call>>

NoCall == [op |-> "none"]

Init ==
    /\ conversation_memory = <<SystemMessage>>
    /\ streaming_conversation = <<SystemMessage>>
    /\ messages = <<SystemMessage>>
    /\ pc = "idle"
    /\ user_message = <<>>
    /\ request = NoRequest
    /\ service = NoOutcome
    /\ chunks = <<>>
    /\ assistant_response = <<>>
    /\ result = NoOutcome
    /\ last_call = NoCall

\* ------------------------------------------------------- chat_with_memory
\* Room for one more turn in the bounded model.
CanStartTurn ==
    Len(conversation_memory) + Len(streaming_conversation) + 2 <= MaxHistory

\* The user message is appended, then completions.create is called with the
\* global list; the function waits for the service.
ChatCall(u) ==
    /\ pc = "idle"
    /\ CanStartTurn
    /\ user_message' = u
    /\ conversation_memory' = Append(conversation_memory, Message("user", u))
    /\ request' = [model |-> "gpt-4", messages |-> conversation_memory',
                   stream |-> FALSE]
    /\ service' = NoOutcome
    /\ result' = NoOutcome
    /\ pc' = "chat_wait"
    /\ UNCHANGED <<streaming_conversation, messages, chunks,
                   assistant_response, last_call>>

\* Mutant: the appended message loses the response text.
ChatAssistantMessage_Empty(response) == Message("assistant", <<>>)

\* Mutant: the response is appended with the user's role.
ChatAssistantMessage_AsUser(response) == Message("user", response.content)

\* What chat_with_memory appends for a response.
ChatAssistantMessage(response) == Message("assistant", response.content)

\* Mutant: the wrong usage figure is returned.
ChatReturnValue_PromptTokens(response) ==
    <<response.content, response.usage.prompt_tokens>>

\* What chat_with_memory returns for a response.
ChatReturnValue(response) == <<response.content, response.usage.total_tokens>>

\* The service answers; the answer is appended and returned.
ChatReturn(text, usage) ==
    /\ pc = "chat_wait"
    /\ service' = [kind |-> "response", content |-> text, usage |-> usage]
    /\ conversation_memory' =
           Append(conversation_memory, ChatAssistantMessage(service'))
    /\ result' = [kind |-> "return", value |-> ChatReturnValue(service')]
    /\ pc' = "idle"
    /\ UNCHANGED <<streaming_conversation, messages, user_message, request,
                   chunks, assistant_response, last_call>>

\* Mutant: the error is caught and an empty answer returned.
Propagate_Swallowed(e) == [kind |-> "return", value |-> <<>>]

\* What a function without try/except gives its caller when the call raises.
Propagate(e) == [kind |-> "raise", error |-> e]

\* completions.create raises; nothing catches it.
ChatRaise(e) ==
    /\ pc = "chat_wait"
    /\ service' = [kind |-> "error", error |-> e]
    /\ result' = Propagate(e)
    /\ pc' = "idle"
    /\ UNCHANGED <<conversation_memory, streaming_conversation, messages,
                   user_message, request, chunks, assistant_response,
                   last_call>>

\* What the interpreter raises in a function whose caller interrupts it.
Interrupt == "KeyboardInterrupt"

\* The caller abandons the turn while completions.create is in flight: the
\* interrupt is raised at the call and nothing catches it.
ChatInterrupt ==
    /\ pc = "chat_wait"
    /\ service' = [kind |-> "abandoned"]
    /\ result' = Propagate(Interrupt)
    /\ pc' = "idle"
    /\ UNCHANGED <<conversation_memory, streaming_conversation, messages,
                   user_message, request, chunks, assistant_response,
                   last_call>>

\* The reset cell.
Reset ==
    /\ pc = "idle"
    /\ conversation_memory' = <<SystemMessage>>
    /\ UNCHANGED <<streaming_conversation, messages, pc, user_message,
                   request, service, chunks, assistant_response, result,
                   last_call>>

\* ------------------------------------------------ stream_chat_with_memory
\* The user message is appended and completions.create(stream=True) is
\* called with the global list; assistant_response starts empty.
StreamCall(u) ==
    /\ pc = "idle"
    /\ CanStartTurn
    /\ user_message' = u
    /\ streaming_conversation' =
           Append(streaming_conversation, Message("user", u))
    /\ request' = [model |-> "gpt-4", messages |-> streaming_conversation',
                   stream |-> TRUE]
    /\ service' = NoOutcome
    /\ result' = NoOutcome
    /\ chunks' = <<>>
    /\ assistant_response' = <<>>
    /\ pc' = "streaming"
    /\ UNCHANGED <<conversation_memory, messages, last_call>>

\* Mutant: the chunk is put in front of the text accumulated so far.
Accumulate_Prepend(acc, delta) ==
    IF ~delta.is_none THEN delta.content \o acc ELSE acc

\* The loop body: assistant_response += content_chunk unless it is None.
Accumulate(acc, delta) ==
    IF ~delta.is_none THEN acc \o delta.content ELSE acc

\* The stream yields one more chunk.
StreamChunk(delta) ==
    /\ pc = "streaming"
    /\ Len(chunks) < MaxChunks
    /\ chunks' = Append(chunks, delta)
    /\ assistant_response' = Accumulate(assistant_response, delta)
    /\ UNCHANGED <<conversation_memory, streaming_conversation, messages, pc,
                   user_message, request, service, result, last_call>>

\* What stream_chat_with_memory appends once the loop is over.
StreamAssistantMessage(acc) == Message("assistant", acc)

\* The stream is exhausted: the accumulated text is appended and returned.
StreamEnd ==
    /\ pc = "streaming"
    /\ service' = [kind |-> "stream", chunks |-> chunks]
    /\ streaming_conversation' =
           Append(streaming_conversation,
                  StreamAssistantMessage(assistant_response))
    /\ result' = [kind |-> "return", value |-> assistant_response]
    /\ pc' = "idle"
    /\ UNCHANGED <<conversation_memory, messages, user_message, request,
                   chunks, assistant_response, last_call>>

\* Mutant: the text accumulated so far is committed when the stream raises.
StreamOnError_CommitsPartial(history, acc) ==
    Append(history, Message("assistant", acc))

\* Mutant: the user message of the failed turn is taken back.
StreamOnError_RollsBack(history, acc) ==
    SubSeq(history, 1, Len(history) - 1)

\* What stream_chat_with_memory leaves in the list when the stream raises.
StreamOnError(history, acc) == history

\* completions.create or the iteration raises; nothing catches it.
StreamRaise(e) ==
    /\ pc = "streaming"
    /\ service' = [kind |-> "error", error |-> e, chunks |-> chunks]
    /\ streaming_conversation' =
           StreamOnError(streaming_conversation, assistant_response)
    /\ result' = Propagate(e)
    /\ pc' = "idle"
    /\ UNCHANGED <<conversation_memory, messages, user_message, request,
                   chunks, assistant_response, last_call>>

\* The caller abandons the turn while the stream is open: the interrupt is
\* raised at the call or in the loop and nothing catches it.
StreamInterrupt ==
    /\ pc = "streaming"
    /\ service' = [kind |-> "abandoned", chunks |-> chunks]
    /\ streaming_conversation' =
           StreamOnError(streaming_conversation, assistant_response)
    /\ result' = Propagate(Interrupt)
    /\ pc' = "idle"
    /\ UNCHANGED <<conversation_memory, messages, user_message, request,
                   chunks, assistant_response, last_call>>

TurnNext ==
    \/ \E u \in UserTexts : ChatCall(u)
    \/ \E t \in Responses, n \in Usages : ChatReturn(t, n)
    \/ \E e \in Errors : ChatRaise(e)
    \/ Reset
    \/ \E u \in UserTexts : StreamCall(u)
    \/ \E d \in Deltas : StreamChunk(d)
    \/ StreamEnd
    \/ \E e \in Errors : StreamRaise(e)
    \/ ChatInterrupt
    \/ StreamInterrupt

\* ------------------------------------------------------ trim_conversation
Min(a, b) == IF a < b THEN a ELSE b
Max(a, b) == IF a > b THEN a ELSE b

\* Python's s[start:] : a negative start counts from the end, and both ends
\* are clamped to the list.  Note that s[-0:] is s[0:], the whole list.
PySliceFrom(s, start) ==
    LET from == IF start < 0 THEN Max(Len(s) + start, 0)
                ELSE Min(start, Len(s))
    IN  SubSeq(s, from + 1, Len(s))

\* Mutant: the system message is not kept.
trim_conversation_DropsSystem(msgs, max_messages) ==
    IF Len(msgs) > max_messages + 1
    THEN PySliceFrom(msgs, -max_messages)
    ELSE msgs

trim_conversation(msgs, max_messages) ==
    IF Len(msgs) > max_messages + 1
    THEN LET system_message == msgs[1]
             recent_messages == PySliceFrom(msgs, -max_messages)
         IN  <<system_message>> \o recent_messages
    ELSE msgs

\* The values of max_messages a caller can pass: the function checks none.
Thresholds == -2 .. MaxK

\* A caller appends a message to its list.
AppendMessage(role, content) ==
    /\ pc = "idle"
    /\ Len(messages) < MaxLen
    /\ messages' = Append(messages, Message(role, content))
    /\ last_call' = [op |-> "append"]
    /\ request' = NoRequest
    /\ service' = NoOutcome
    /\ result' = NoOutcome
    /\ UNCHANGED <<conversation_memory, streaming_conversation, pc,
                   user_message, chunks, assistant_response>>

\* messages = trim_conversation(messages, k)
Trim(k) ==
    /\ pc = "idle"
    /\ Len(messages) <= MaxLen
    /\ last_call' = [op |-> "trim", messages |-> messages,
                     max_messages |-> k,
                     value |-> trim_conversation(messages, k)]
    /\ messages' = last_call'.value
    /\ result' = [kind |-> "return", value |-> last_call'.value]
    /\ request' = NoRequest
    /\ service' = NoOutcome
    /\ UNCHANGED <<conversation_memory, streaming_conversation, pc,
                   user_message, chunks, assistant_response>>

\* ------------------------------------------------- summarize_conversation
\* Mutant: the conversation's own system message is left out of the request.
SummaryRequestMessages_SkipsSystem(msgs) ==
    <<Message("system", SummarizeInstruction)>> \o Tail(msgs)

\* The messages of the summary request.
SummaryRequestMessages(msgs) ==
    <<Message("system", SummarizeInstruction)>> \o msgs

\* The list summarize_conversation returns for a summary.
SummarizedConversation(msgs, summary) ==
    <<msgs[1], Message("system", SummaryPrefix \o summary)>>

\* summarize_conversation(messages) sends its request and waits.
SummarizeCall ==
    /\ pc = "idle"
    /\ Len(messages) <= MaxLen
    /\ request' = [model |-> "gpt-3.5-turbo",
                   messages |-> SummaryRequestMessages(messages),
                   stream |-> FALSE]
    /\ service' = NoOutcome
    /\ result' = NoOutcome
    /\ last_call' = [op |-> "summarize", messages |-> messages]
    /\ pc' = "summarize_wait"
    /\ UNCHANGED <<conversation_memory, streaming_conversation, messages,
                   user_message, chunks, assistant_response>>

\* The summary arrives: messages = summarize_conversation(messages)
SummarizeReturn(summary, usage) ==
    /\ pc = "summarize_wait"
    /\ service' = [kind |-> "response", content |-> summary, usage |-> usage]
    /\ result' = [kind |-> "return",
                  value |-> SummarizedConversation(messages, service'.content)]
    /\ messages' = result'.value
    /\ pc' = "idle"
    /\ UNCHANGED <<conversation_memory, streaming_conversation,
                   user_message, request, chunks, assistant_response,
                   last_call>>

\* The summary request raises; the caller's assignment does not happen.
SummarizeRaise(e) ==
    /\ pc = "summarize_wait"
    /\ service' = [kind |-> "error", error |-> e]
    /\ result' = Propagate(e)
    /\ pc' = "idle"
    /\ UNCHANGED <<conversation_memory, streaming_conversation, messages,
                   user_message, request, chunks, assistant_response,
                   last_call>>

\* The reset cell, for the caller's list.
ResetMessages ==
    /\ pc = "idle"
    /\ messages' = <<SystemMessage>>
    /\ last_call' = [op |-> "reset"]
    /\ request' = NoRequest
    /\ service' = NoOutcome
    /\ result' = NoOutcome
    /\ UNCHANGED <<conversation_memory, streaming_conversation, pc,
                   user_message, chunks, assistant_response>>

WindowNext ==
    \/ SummarizeCall
    \/ \E s \in Summaries, n \in Usages : SummarizeReturn(s, n)
    \/ \E e \in Errors : SummarizeRaise(e)
    \/ \E u \in UserTexts : AppendMessage("user", u)
    \/ \E t \in Responses : AppendMessage("assistant", t)
    \/ \E k \in Thresholds : Trim(k)
    \/ ResetMessages

\* ---------------------------------------------------------- specifications
\* Turns on the two global histories.
Next == TurnNext
Spec == Init /\ [][Next]_vars

\* A caller's list under appends, trimming, summarizing and reset.
SpecWindow == Init /\ [][WindowNext]_vars

\* ------------------------------------------------------------------ claims
Last(s) == s[Len(s)]

\* The last n elements of t, in order (all of t when it has fewer).
LastN(t, n) ==
    IF n <= 0 THEN <<>>
    ELSE IF n >= Len(t) THEN t
    ELSE [i \in 1 .. n |-> t[Len(t) - n + i]]

\* The text fragments of a chunk sequence, in arrival order.
RECURSIVE TextFragments(_)
TextFragments(cs) ==
    IF cs = <<>> THEN <<>>
    ELSE (IF Head(cs).is_none THEN <<>> ELSE <<Head(cs).content>>)
         \o TextFragments(Tail(cs))

\* f1 + f2 + ... + fn
RECURSIVE Concatenation(_)
Concatenation(fs) ==
    IF fs = <<>> THEN <<>> ELSE Head(fs) \o Concatenation(Tail(fs))

SystemCount(h) == Cardinality({i \in 1 .. Len(h) : h[i].role = "system"})

IsSummaryMessage(m) ==
    /\ m.role = "system"
    /\ Len(m.content) >= Len(SummaryPrefix)
    /\ SubSeq(m.content, 1, Len(SummaryPrefix)) = SummaryPrefix

\* C1: for every history H with a leading system message and every
\* threshold k >= 0, trim_conversation(H, k) has at most k+1 elements, its
\* first element is H[0], the rest are exactly the last k elements of
\* H[1..] in order, and it equals H when len(H) <= k+1.
C1_TrimKeepsSystemAndLastK ==
    (last_call.op = "trim" /\ last_call.max_messages >= 0) =>
        LET H == last_call.messages
            k == last_call.max_messages
            R == last_call.value
        IN  /\ Len(R) <= k + 1
            /\ R[1] = H[1]
            /\ Tail(R) = LastN(Tail(H), k)
            /\ (Len(H) <= k + 1 => R = H)

\* C2: when the completion call of chat_with_memory raises, the same error
\* reaches the caller and the history is the one before the turn plus
\* exactly the user message: the call step appends the user message and
\* the failure step changes nothing.
C2_FailedTurnKeepsOnlyUserMessage ==
    [][ /\ (pc = "idle" /\ pc' = "chat_wait") =>
               conversation_memory' =
                   Append(conversation_memory,
                          [role |-> "user", content |-> user_message'])
        /\ (pc = "chat_wait" /\ service'.kind = "error") =>
               /\ conversation_memory' = conversation_memory
               /\ result' = [kind |-> "raise", error |-> service'.error]
      ]_vars

\* C2 witness: a second turn has failed after a first one succeeded.
C2_Witness ==
    /\ pc = "idle"
    /\ ~request.stream
    /\ result.kind = "raise"
    /\ service.kind = "error"
    /\ Len(conversation_memory) = 4
    /\ conversation_memory[3].role = "assistant"
    /\ conversation_memory[4] = [role |-> "user", content |-> user_message]

\* C3: after every chat_with_memory turn that returns, the last element of
\* the history has role assistant and its content is the text returned to
\* the caller, which is the text the service produced.
C3_ReturnedTextIsLastMessage ==
    [][ (pc = "chat_wait" /\ result'.kind = "return") =>
            /\ Last(conversation_memory').role = "assistant"
            /\ Last(conversation_memory').content = result'.value[1]
            /\ result'.value[1] = service'.content
            /\ Len(conversation_memory') = Len(conversation_memory) + 1
      ]_vars

\* C3 witness: a turn has returned a non-empty text.
C3_Witness ==
    /\ pc = "idle"
    /\ ~request.stream
    /\ request.model = "gpt-4"
    /\ result.kind = "return"
    /\ result.value[1] = <<"Hello!">>
    /\ Last(conversation_memory) =
           [role |-> "assistant", content |-> <<"Hello!">>]

\* C4: when the stream ends without failure after text fragments f1..fn,
\* stream_chat_with_memory appends exactly one assistant message whose
\* content is f1 + ... + fn in arrival order, and returns that text.
C4_StreamConcatenation ==
    [][ (pc = "streaming" /\ result'.kind = "return") =>
            LET text == Concatenation(TextFragments(service'.chunks))
            IN  /\ streaming_conversation' =
                       Append(streaming_conversation,
                              [role |-> "assistant", content |-> text])
                /\ result'.value = text
      ]_vars

\* C4 witness: a stream of two different text fragments has ended normally.
C4_Witness ==
    /\ pc = "idle"
    /\ request.stream
    /\ result.kind = "return"
    /\ service.kind = "stream"
    /\ Len(service.chunks) = 2
    /\ ~service.chunks[1].is_none
    /\ ~service.chunks[2].is_none
    /\ service.chunks[1].content # service.chunks[2].content
    /\ Last(streaming_conversation).content = result.value

\* C5: when the stream fails after any number of fragments, no assistant
\* message is appended: the call step appends the user message only, no
\* step while streaming touches the history, and the failure step leaves
\* it as it is and raises.
C5_NoPartialAssistantMessage ==
    [][ /\ (pc = "idle" /\ pc' = "streaming") =>
               streaming_conversation' =
                   Append(streaming_conversation,
                          [role |-> "user", content |-> user_message'])
        /\ (pc = "streaming" /\ pc' = "streaming") =>
               streaming_conversation' = streaming_conversation
        /\ (pc = "streaming" /\ service'.kind = "error") =>
               /\ streaming_conversation' = streaming_conversation
               /\ result' = [kind |-> "raise", error |-> service'.error]
      ]_vars

\* C5 witness: a stream has failed after delivering a text fragment.
C5_Witness ==
    /\ pc = "idle"
    /\ request.stream
    /\ result.kind = "raise"
    /\ service.kind = "error"
    /\ Len(chunks) >= 1
    /\ assistant_response # <<>>
    /\ Last(streaming_conversation) =
           [role |-> "user", content |-> user_message]

\* C6: for a configured threshold k, the message list a turn hands to the
\* completion service never has more than k+1 messages.
C6_WindowAppliedBeforeCall ==
    \A k \in 1 .. MaxK :
        pc \in {"chat_wait", "streaming"} => Len(request.messages) <= k + 1

\* C7: the first element of a caller's history has role system and the
\* history holds exactly one message with role system.
C7_ExactlyOneSystemMessage ==
    /\ messages[1].role = "system"
    /\ SystemCount(messages) = 1

\* C7 (amended): the first element of a caller's history is the initial
\* system message; every further message with role system is a summary
\* message of summarize_conversation or a copy of the first element.
C7_SystemMessageFirst ==
    /\ Len(messages) >= 1
    /\ messages[1] = [role |-> "system", content |-> SystemPrompt]
    /\ \A i \in 2 .. Len(messages) :
           messages[i].role = "system" =>
               IsSummaryMessage(messages[i]) \/ messages[i] = messages[1]

\* C7 witness: a summarized history, holding two system messages, to which
\* the conversation has added messages.
C7_Witness ==
    /\ last_call.op = "append"
    /\ Len(messages) >= 4
    /\ SystemCount(messages) = 2
    /\ IsSummaryMessage(messages[2])

\* C8: summarize_conversation(H) calls the service with the summarize
\* instruction followed by every message of H, and on success returns
\* exactly two messages: H[0] and one system message whose content is the
\* prefix followed by the returned summary.
C8_SummarizeShape ==
    last_call.op = "summarize" =>
        LET H == last_call.messages
        IN  /\ request.model = "gpt-3.5-turbo"
            /\ Len(request.messages) = Len(H) + 1
            /\ request.messages[1] =
                   [role |-> "system", content |-> SummarizeInstruction]
            /\ \A i \in 1 .. Len(H) : request.messages[i + 1] = H[i]
            /\ result.kind = "return" =>
                   /\ Len(result.value) = 2
                   /\ result.value[1] = H[1]
                   /\ result.value[2] =
                          [role |-> "system",
                           content |-> SummaryPrefix \o service.content]
                   /\ messages = result.value
            /\ result.kind = "raise" => messages = H

\* C8 witness: a history that already was a summary result (two messages,
\* the second a summary message) has been summarized again.
C8_Witness ==
    /\ last_call.op = "summarize"
    /\ result.kind = "return"
    /\ Len(last_call.messages) = 2
    /\ IsSummaryMessage(last_call.messages[2])
    /\ Len(messages) = 2
    /\ messages[2] # last_call.messages[2]

\* C9: trim_conversation never returns a history computed with
\* max_messages <= 0: such a call is rejected with an error.
C9_NonPositiveThresholdRejected ==
    (last_call.op = "trim" /\ last_call.max_messages <= 0) =>
        result.kind = "raise"

\* C10: trimming the result of trim_conversation(H, k) again with the same
\* k gives that result again.
C10_TrimIdempotent ==
    last_call.op = "trim" =>
        trim_conversation(last_call.value, last_call.max_messages)
            = last_call.value

\* The token figures of a usage report.
UsageFigures(u) == {u.prompt_tokens, u.completion_tokens, u.total_tokens}

\* What chat_with_memory's return value carries besides the text.
ReturnedFigures(v) == {v[i] : i \in 2 .. Len(v)}

\* C11: a chat_with_memory turn that returns gives its caller the text and
\* the usage report of the service with all three of its figures
\* (prompt, completion and total tokens).
C11_UsageReportForwarded ==
    [][ (pc = "chat_wait" /\ result'.kind = "return") =>
            /\ result'.value[1] = service'.content
            /\ UsageFigures(service'.usage) \subseteq
                   ReturnedFigures(result'.value)
      ]_vars

\* C11 (amended): a chat_with_memory turn that returns gives its caller
\* the text and the total_tokens figure of the service's usage report, and
\* nothing else of the report; the history gets the assistant message.
\* From [system, user "Hi"], text "Hello!" and usage {5,3,8} give
\* [system, user "Hi", assistant "Hello!"] and ("Hello!", 8).
C11_TotalTokensForwarded ==
    [][ (pc = "chat_wait" /\ result'.kind = "return") =>
            /\ result'.value =
                   <<service'.content, service'.usage.total_tokens>>
            /\ conversation_memory' =
                   Append(conversation_memory,
                          [role |-> "assistant",
                           content |-> service'.content])
      ]_vars

\* C11 witness: the turn "Hi" on the initial history was answered "Hello!"
\* with usage {5,3,8}.
C11_Witness ==
    /\ pc = "idle"
    /\ ~request.stream
    /\ service.kind = "response"
    /\ service.usage = [prompt_tokens |-> 5, completion_tokens |-> 3,
                        total_tokens |-> 8]
    /\ conversation_memory =
           <<[role |-> "system", content |-> SystemPrompt],
             [role |-> "user", content |-> <<"Hi">>],
             [role |-> "assistant", content |-> <<"Hello!">>]>>
    /\ result = [kind |-> "return", value |-> <<<<"Hello!">>, 8>>]

\* All of s but its last element.
Front(s) == SubSeq(s, 1, Len(s) - 1)

\* C13: a turn abandoned while the completion call is in flight leaves the
\* history as it was before the turn began, that is, as the list handed
\* to the service without the user message of this turn.
C13_AbandonedTurnLeavesHistory ==
    [][ /\ (pc = "chat_wait" /\ service'.kind = "abandoned") =>
               conversation_memory' = Front(request.messages)
        /\ (pc = "streaming" /\ service'.kind = "abandoned") =>
               streaming_conversation' = Front(request.messages)
      ]_vars

IsPrefix(a, b) == Len(a) <= Len(b) /\ SubSeq(b, 1, Len(a)) = a

\* C12: every step of chat_with_memory and stream_chat_with_memory,
\* successful or failed, leaves the history it found as a prefix of the
\* history it leaves; a step that removes a message is the reset.
C12_TurnsAppendOnly ==
    [][ /\ (pc # "idle" \/ pc' # "idle") =>
               /\ IsPrefix(conversation_memory, conversation_memory')
               /\ IsPrefix(streaming_conversation, streaming_conversation')
        /\ ~IsPrefix(conversation_memory, conversation_memory') =>
               /\ pc = "idle" /\ pc' = "idle"
               /\ conversation_memory' =
                      <<[role |-> "system", content |-> SystemPrompt]>>
        /\ IsPrefix(streaming_conversation, streaming_conversation')
      ]_vars

\* C12 witness: a streamed turn has failed after an earlier one succeeded,
\* and both turns' messages are still in the history.
C12_Witness ==
    /\ pc = "idle"
    /\ request.stream
    /\ result.kind = "raise"
    /\ Len(streaming_conversation) = 4
    /\ streaming_conversation[2].role = "user"
    /\ streaming_conversation[3].role = "assistant"
    /\ streaming_conversation[4].role = "user"

RoleCount(h, role) == Cardinality({i \in 1 .. Len(h) : h[i].role = role})

\* Every assistant message directly follows a user message, and there are
\* no more assistant messages than user messages.
AnswersFollowQuestions(h) ==
    /\ Len(h) >= 1
    /\ h[1].role = "system"
    /\ \A i \in 2 .. Len(h) : h[i].role \in {"user", "assistant"}
    /\ \A i \in 1 .. Len(h) :
           h[i].role = "assistant" => (i >= 2 /\ h[i - 1].role = "user")
    /\ RoleCount(h, "assistant") <= RoleCount(h, "user")

\* system, then user, assistant, user, assistant, ...: length 1 + 2n.
Alternating(h) ==
    /\ Len(h) % 2 = 1
    /\ h[1].role = "system"
    /\ \A i \in 2 .. Len(h) :
           h[i].role = IF i % 2 = 0 THEN "user" ELSE "assistant"

\* What one step of a turn does to the roles of history h (hn after it):
\* a return on an alternating history leaves an alternating one, two
\* messages longer than before the turn; a failure leaves the user message
\* last; a call after a failure leaves two adjacent user messages.
TurnStepRoles(h, hn, waiting) ==
    /\ (pc = waiting /\ result'.kind = "return"
           /\ Alternating(SubSeq(h, 1, Len(h) - 1))) =>
           (Alternating(hn) /\ Len(hn) = Len(h) + 1)
    /\ (pc = waiting /\ result'.kind = "raise") =>
           (hn = h /\ hn[Len(hn)].role = "user")
    /\ (pc = "idle" /\ pc' = waiting /\ h[Len(h)].role = "user") =>
           (hn[Len(hn) - 1].role = "user" /\ hn[Len(hn)].role = "user")

\* C14: in every history reachable by successful and failed turns, every
\* assistant message directly follows a user message and assistant
\* messages do not outnumber user messages; while all turns succeed the
\* history alternates user, assistant after the system message (length
\* 1 + 2n); a failed turn followed by another turn leaves two adjacent
\* user messages.
C14_TurnStructure ==
    /\ [](AnswersFollowQuestions(conversation_memory)
            /\ AnswersFollowQuestions(streaming_conversation))
    /\ [][ /\ TurnStepRoles(conversation_memory, conversation_memory',
                             "chat_wait")
            /\ TurnStepRoles(streaming_conversation,
                             streaming_conversation', "streaming")
          ]_vars

\* C14 witness: a failed call, then a successful one: two adjacent user
\* messages followed by the answer.
C14_Witness ==
    /\ pc = "idle"
    /\ result.kind = "return"
    /\ Len(conversation_memory) = 4
    /\ conversation_memory[2].role = "user"
    /\ conversation_memory[3].role = "user"
    /\ conversation_memory[4].role = "assistant"
====
